---------------------------- MODULE Spec2Model ----------------------------
(***************************************************************************)
(* Model of packages/html-reporter/src/links.tsx: the fragment-parameter   *)
(* store (SearchParamsContext / SearchParamsProvider / navigate), the      *)
(* anchor hooks (useAnchor / useIsAnchored) and the link builder           *)
(* (testResultHref).                                                       *)
(*                                                                         *)
(* JavaScript strings are sequences of one-character strings, so that      *)
(* hash.slice(1), the URLSearchParams parser and its serializer are        *)
(* computed character by character.  An optional value is <<>> when it is  *)
(* undefined/null and <<v>> when it is the value v.                        *)
(***************************************************************************)
EXTENDS Integers, Sequences, FiniteSets, TLC

(***************************************************************************)
(* Optional values (undefined / null).                                     *)
(***************************************************************************)
Undefined == <<>>

Given(v) == <<v>>

IsGiven(o) == o # <<>>

Val(o) == o[1]

(* JavaScript truthiness of an optional string: given and non-empty. *)
Truthy(o) == IsGiven(o) /\ Val(o) # <<>>

(***************************************************************************)
(* String helpers.                                                         *)
(***************************************************************************)
(* Mutation: nothing is sliced off. *)
Slice0(s) == s

(* String.prototype.slice(1): the string without its first character. *)
Slice1(s) == IF Len(s) = 0 THEN <<>> ELSE SubSeq(s, 2, Len(s))

(* Index of the first occurrence of character c in s, 0 when absent. *)
RECURSIVE FirstIndexFrom(_, _, _)
FirstIndexFrom(s, c, i) ==
    IF i > Len(s) THEN 0
    ELSE IF s[i] = c THEN i
    ELSE FirstIndexFrom(s, c, i + 1)

FirstIndex(s, c) == FirstIndexFrom(s, c, 1)

(* s split on every occurrence of character c (empty pieces kept). *)
RECURSIVE SplitOn(_, _)
SplitOn(s, c) ==
    LET i == FirstIndex(s, c)
    IN  IF i = 0 THEN <<s>>
        ELSE <<SubSeq(s, 1, i - 1)>> \o SplitOn(SubSeq(s, i + 1, Len(s)), c)

(* Decimal digits of a natural number. *)
DigitChar(d) ==
    CASE d = 0 -> "0" [] d = 1 -> "1" [] d = 2 -> "2" [] d = 3 -> "3"
      [] d = 4 -> "4" [] d = 5 -> "5" [] d = 6 -> "6" [] d = 7 -> "7"
      [] d = 8 -> "8" [] d = 9 -> "9"

RECURSIVE NatToString(_)
NatToString(n) ==
    IF n < 10 THEN <<DigitChar(n)>>
    ELSE NatToString(n \div 10) \o <<DigitChar(n % 10)>>

(* Mutation: the sign is lost. *)
NumberToStringUnsigned(n) == IF n < 0 THEN NatToString(0 - n) ELSE NatToString(n)

(* '' + n for an integer n. *)
NumberToString(n) == IF n < 0 THEN <<"-">> \o NatToString(0 - n) ELSE NatToString(n)

(***************************************************************************)
(* URLSearchParams: the application/x-www-form-urlencoded parser and       *)
(* serializer of the host, for the characters the model uses.              *)
(***************************************************************************)
(* The serializer's encoding of one character: a space is '+', the reserved
   characters are percent escapes, letters, digits and -._* stay. *)
EncodeChar(c) ==
    CASE c = " " -> <<"+">>
      [] c = "&" -> <<"%", "2", "6">>
      [] c = "=" -> <<"%", "3", "D">>
      [] c = "+" -> <<"%", "2", "B">>
      [] c = "#" -> <<"%", "2", "3">>
      [] c = "?" -> <<"%", "3", "F">>
      [] c = "%" -> <<"%", "2", "5">>
      [] OTHER -> <<c>>

RECURSIVE EncodeString(_)
EncodeString(s) ==
    IF s = <<>> THEN <<>> ELSE EncodeChar(Head(s)) \o EncodeString(Tail(s))

(* The character a percent escape stands for, <<>> when it is no escape the
   model knows. *)
DecodeEscape(h1, h2) ==
    CASE h1 = "2" /\ h2 = "6" -> <<"&">>
      [] h1 = "3" /\ h2 = "D" -> <<"=">>
      [] h1 = "2" /\ h2 = "B" -> <<"+">>
      [] h1 = "2" /\ h2 = "3" -> <<"#">>
      [] h1 = "3" /\ h2 = "F" -> <<"?">>
      [] h1 = "2" /\ h2 = "5" -> <<"%">>
      [] OTHER -> <<>>

(* The parser's decoding: '+' is a space, %XX is the escaped character, a
   '%' that starts no escape stays. *)
RECURSIVE DecodeString(_)
DecodeString(s) ==
    IF s = <<>> THEN <<>>
    ELSE IF Head(s) = "+" THEN <<" ">> \o DecodeString(Tail(s))
    ELSE IF Head(s) = "%" /\ Len(s) >= 3 /\ DecodeEscape(s[2], s[3]) # <<>>
         THEN DecodeEscape(s[2], s[3]) \o DecodeString(SubSeq(s, 4, Len(s)))
    ELSE <<Head(s)>> \o DecodeString(Tail(s))

(* One name=value piece of a query string: split at the first '='. *)
ParsePair(piece) ==
    LET i == FirstIndex(piece, "=")
    IN  IF i = 0 THEN [name |-> DecodeString(piece), value |-> <<>>]
        ELSE [name  |-> DecodeString(SubSeq(piece, 1, i - 1)),
              value |-> DecodeString(SubSeq(piece, i + 1, Len(piece)))]

RECURSIVE ParsePieces(_)
ParsePieces(pieces) ==
    IF pieces = <<>> THEN <<>>
    ELSE IF Head(pieces) = <<>> THEN ParsePieces(Tail(pieces))
    ELSE <<ParsePair(Head(pieces))>> \o ParsePieces(Tail(pieces))

(* new URLSearchParams(init) for a string init: one leading '?' is dropped,
   the rest is split on '&', empty pieces are skipped. *)
URLSearchParams(init) ==
    LET body == IF init # <<>> /\ Head(init) = "?" THEN Tail(init) ELSE init
    IN  ParsePieces(SplitOn(body, "&"))

(* URLSearchParams.prototype.get: the first value of the name, or null. *)
RECURSIVE ParamsGet(_, _)
ParamsGet(params, name) ==
    IF params = <<>> THEN Undefined
    ELSE IF Head(params).name = name THEN Given(Head(params).value)
    ELSE ParamsGet(Tail(params), name)

ParamsHas(params, name) == \E i \in 1..Len(params) : params[i].name = name

(* The entries of params whose name is not `name`. *)
RECURSIVE ParamsWithout(_, _)
ParamsWithout(params, name) ==
    IF params = <<>> THEN <<>>
    ELSE IF Head(params).name = name THEN ParamsWithout(Tail(params), name)
    ELSE <<Head(params)>> \o ParamsWithout(Tail(params), name)

(* URLSearchParams.prototype.set: the first entry of the name takes the
   value and the others of that name are removed; a new name is appended. *)
ParamsSet(params, name, value) ==
    IF ParamsHas(params, name)
    THEN LET i == CHOOSE k \in 1..Len(params) :
                    /\ params[k].name = name
                    /\ \A j \in 1..(k - 1) : params[j].name # name
         IN  SubSeq(params, 1, i - 1) \o <<[name |-> name, value |-> value]>>
               \o ParamsWithout(SubSeq(params, i + 1, Len(params)), name)
    ELSE Append(params, [name |-> name, value |-> value])

(* URLSearchParams.prototype.toString. *)
RECURSIVE ParamsToString(_)
ParamsToString(params) ==
    IF params = <<>> THEN <<>>
    ELSE EncodeString(Head(params).name) \o <<"=">> \o EncodeString(Head(params).value)
           \o (IF Len(params) > 1 THEN <<"&">> ELSE <<>>)
           \o ParamsToString(Tail(params))

(***************************************************************************)
(* State.                                                                  *)
(***************************************************************************)
VARIABLES
    entries,        \* session history: the URL of every entry, oldest first
    index,          \* position of the current entry in entries
    hostLog,        \* calls of navigate and of the host primitives, in order
    listeners,      \* window's popstate listeners, in registration order
    ctxDefault,     \* default value of SearchParamsContext (module load)
    status,         \* per React tree: "none", "rendered", "mounted", "unmounted"
    searchParams,   \* per provider: its useState value, Undefined when not mounted
    pendingParams,  \* per provider: the queued setSearchParams value, if any
    notified,       \* per provider: calls of its popstate listener so far
    subDeps,        \* per useAnchor caller: dependencies of its last render
    effectPending,  \* per useAnchor caller: its effect is scheduled
    reveals,        \* per useAnchor caller: invocations of onReveal
    anchoredCommits, \* per caller: renders with a new snapshot that matched
    anchorArgs,     \* arguments of a useIsAnchored call
    anchorOut,      \* its result, Undefined before the call
    hrefArgs,       \* the argument object of a testResultHref call
    hrefOut,        \* its return value, Undefined before the call
    pageBase,       \* origin and pathname of the document's URL
    traceArgs,      \* the attachments of a generateTraceUrl call (their paths)
    traceOut,       \* its return value, Undefined before the call
    roundTrip,      \* the parameters a link was serialized from, if any
    callLog,        \* calls of the link builders: inputs and return value
    lastClick       \* the last click on a Link and what its handler did

browserVars == <<entries, index, hostLog, listeners>>

reactVars == <<ctxDefault, status, searchParams, pendingParams, notified>>

anchorVars == <<subDeps, effectPending, reveals, anchoredCommits>>

navVars == <<browserVars, reactVars, anchorVars>>

isAnchoredVars == <<anchorArgs, anchorOut>>

hrefVars == <<hrefArgs, hrefOut>>

traceVars == <<pageBase, traceArgs, traceOut>>

linkVars == <<traceVars, roundTrip, callLog, lastClick>>

vars == <<navVars, isAnchoredVars, hrefVars, linkVars>>

(***************************************************************************)
(* Parameter names.                                                        *)
(***************************************************************************)
kTestId == <<"t", "e", "s", "t", "I", "d">>

kRun == <<"r", "u", "n">>

kAnchor == <<"a", "n", "c", "h", "o", "r">>

kQ == <<"q">>

(***************************************************************************)
(* Bounds and configuration.                                               *)
(***************************************************************************)
(* Number of SearchParamsProvider instances (React trees 1..NumProviders;
   tree 0 is a tree of consumers under no provider). *)
NumProviders == 2

(* Number of components that call useAnchor. *)
NumSubs == 4

(* Number of popstate events (navigate calls and back/forward) in a run. *)
MaxEvents == 3

Providers == 1..NumProviders

Trees == 0..NumProviders

Subs == 1..NumSubs

(* The tree a useAnchor caller is rendered in. *)
SubUnder(s) == CASE s = 1 -> 1 [] s = 2 -> 1 [] s = 3 -> 2 [] OTHER -> 0

SubsOf(t) == { s \in Subs : SubUnder(s) = t }

(* An AnchorID: undefined, a string, an array of strings, or a predicate,
   given by the set of strings it returns true on. *)
IdUndefined == [kind |-> "undefined"]

IdString(v) == [kind |-> "string", value |-> v]

IdArray(items) == [kind |-> "array", items |-> items]

IdFunction(trueOn) == [kind |-> "function", trueOn |-> trueOn]

(* The id each useAnchor caller passes. *)
SubId(s) ==
    CASE s = 1 -> IdString(<<"a">>)
      [] s = 2 -> IdArray(<< <<"a">>, <<"b">> >>)
      [] s = 3 -> IdFunction({ <<"a">>, <<"c">> })
      [] OTHER -> IdString(<<"a">>)

(* Location fragments the page may be loaded with. *)
InitialFragments == { <<>>, <<"?", "a", "n", "c", "h", "o", "r", "=", "a">> }

(* Targets passed to navigate: fragment-only and query-only references. *)
Targets ==
    { <<"#", "?", "a", "n", "c", "h", "o", "r", "=", "a">>,
      <<"#", "?", "q", "=", "x", "&", "a", "n", "c", "h", "o", "r", "=", "a">>,
      <<"#", "?", "a", "n", "c", "h", "o", "r", "=", "b">>,
      <<"?", "s", "=", "1">> }

(***************************************************************************)
(* The host: URL, location, history, events.                               *)
(***************************************************************************)
(* The URL a reference resolves to against url: "#f" replaces the fragment,
   "?q" or "?q#f" replaces query and fragment. *)
ResolveURL(href, url) ==
    IF Head(href) = "#"
    THEN [url EXCEPT !.fragment = Tail(href)]
    ELSE LET i == FirstIndex(href, "#")
         IN  IF i = 0
             THEN [search |-> Tail(href), fragment |-> <<>>]
             ELSE [search |-> SubSeq(href, 2, i - 1),
                   fragment |-> SubSeq(href, i + 1, Len(href))]

(* window.location.hash: "#" and the fragment, "" when it is empty. *)
LocationHash(url) == IF url.fragment = <<>> THEN <<>> ELSE <<"#">> \o url.fragment

(* Mutation: no entry is pushed when the URL does not change. *)
PushStateUnlessSame(hist, href) ==
    IF ResolveURL(href, hist.entries[hist.index]) = hist.entries[hist.index]
    THEN hist
    ELSE [entries |-> Append(SubSeq(hist.entries, 1, hist.index),
                             ResolveURL(href, hist.entries[hist.index])),
          index   |-> hist.index + 1]

(* window.history.pushState({}, '', href): the entries after the current
   one are dropped and the new URL becomes the current entry. *)
PushState(hist, href) ==
    [entries |-> Append(SubSeq(hist.entries, 1, hist.index),
                        ResolveURL(href, hist.entries[hist.index])),
     index   |-> hist.index + 1]

CallRecord(href) == [op |-> "navigate", arg |-> href]

PushRecord(href) == [op |-> "pushState", arg |-> href]

DispatchRecord == [op |-> "dispatchEvent", arg |-> <<"popstate">>]

TraverseRecord(delta) == [op |-> "traverse", arg |-> <<delta>>]

(* Number of location changes so far: navigate calls and back/forward. *)
PopstateCount ==
    Cardinality({ i \in 1..Len(hostLog) : hostLog[i].op \in {"navigate", "traverse"} })

(***************************************************************************)
(* SearchParamsContext and SearchParamsProvider.                           *)
(***************************************************************************)
(* A URLSearchParams object: its identity and its entries. *)
Snapshot(id, params) == [id |-> id, params |-> params]

(* new URLSearchParams(window.location.hash.slice(1)) *)
ParseLocation(url) == URLSearchParams(Slice1(LocationHash(url)))

(* The popstate listener of provider p, called with the location url:
   setSearchParams(new URLSearchParams(...)) queues a new object. *)
listener(state, p, url) ==
    [state EXCEPT
        !.pendingParams[p] = Given(Snapshot(<<p, state.notified[p] + 1>>, ParseLocation(url))),
        !.notified[p] = state.notified[p] + 1]

(* Mutation: only the first registered listener is called. *)
DispatchEventFirstOnly(state, ls, url) ==
    IF ls = <<>> THEN state ELSE listener(state, Head(ls), url)

(* window.dispatchEvent(popstate): every registered listener is called
   once, in registration order. *)
RECURSIVE DispatchEvent(_, _, _)
DispatchEvent(state, ls, url) ==
    IF ls = <<>> THEN state
    ELSE DispatchEvent(listener(state, Head(ls), url), Tail(ls), url)

StoreState == [pendingParams |-> pendingParams, notified |-> notified]

(* Mutation: the event is dispatched before the entry is pushed. *)
navigateDispatchFirst(href) ==
    LET hist == PushState([entries |-> entries, index |-> index], href)
        after == DispatchEvent(StoreState, listeners, entries[index])
    IN  /\ PopstateCount < MaxEvents
        /\ entries' = hist.entries
        /\ index' = hist.index
        /\ hostLog' = hostLog \o <<CallRecord(href), DispatchRecord, PushRecord(href)>>
        /\ pendingParams' = after.pendingParams
        /\ notified' = after.notified
        /\ UNCHANGED <<listeners, ctxDefault, status, searchParams>>
        /\ UNCHANGED <<anchorVars, isAnchoredVars, hrefVars, linkVars>>

(* The body of navigate(href): pushState, then the popstate event. *)
navigateCall(href) ==
    LET hist == PushState([entries |-> entries, index |-> index], href)
        after == DispatchEvent(StoreState, listeners, hist.entries[hist.index])
    IN  /\ PopstateCount < MaxEvents
        /\ entries' = hist.entries
        /\ index' = hist.index
        /\ hostLog' = hostLog \o <<CallRecord(href), PushRecord(href), DispatchRecord>>
        /\ pendingParams' = after.pendingParams
        /\ notified' = after.notified
        /\ UNCHANGED <<listeners, ctxDefault, status, searchParams>>

(* navigate(href), called by a component. *)
navigate(href) ==
    /\ navigateCall(href)
    /\ UNCHANGED <<anchorVars, isAnchoredVars, hrefVars, linkVars>>

(***************************************************************************)
(* Link: the click handler of its <a> element.                             *)
(***************************************************************************)
(* Mutation: only the ctrl key selects ctrlClick. *)
ClickTargetCtrlOnly(link, e) ==
    IF e.ctrlKey
    THEN (IF Truthy(link.ctrlClick) THEN Val(link.ctrlClick) ELSE Val(link.click))
    ELSE Val(link.click)

(* e.metaKey || e.ctrlKey ? ctrlClick || click : click *)
ClickTarget(link, e) ==
    IF e.metaKey \/ e.ctrlKey
    THEN (IF Truthy(link.ctrlClick) THEN Val(link.ctrlClick) ELSE Val(link.click))
    ELSE Val(link.click)

(* Number of clicks so far. *)
ClickCount == IF IsGiven(lastClick) THEN Val(lastClick).n ELSE 0

ClickRecord(link, e, prevented) ==
    Given([n |-> ClickCount + 1, link |-> link, event |-> e,
           defaultPrevented |-> prevented, followed |-> FALSE])

(* The onClick handler of a Link, called with the click event e. *)
onClick(link, e) ==
    /\ IF Truthy(link.click)
       THEN /\ lastClick' = ClickRecord(link, e, TRUE)
            /\ navigateCall(ClickTarget(link, e))
       ELSE /\ lastClick' = ClickRecord(link, e, FALSE)
            /\ UNCHANGED <<browserVars, reactVars>>
    /\ UNCHANGED <<anchorVars, isAnchoredVars, hrefVars, traceVars, roundTrip, callLog>>

FollowRecord(href) == [op |-> "followHref", arg |-> href]

(* The default action of a click the handler did not prevent, on a Link
   with an href: the browser navigates to the href (a fragment) and fires
   popstate. *)
FollowHref ==
    /\ IsGiven(lastClick)
    /\ ~Val(lastClick).defaultPrevented
    /\ ~Val(lastClick).followed
    /\ IsGiven(Val(lastClick).link.href)
    /\ LET href == Val(Val(lastClick).link.href)
           hist == PushState([entries |-> entries, index |-> index], href)
           after == DispatchEvent(StoreState, listeners, hist.entries[hist.index])
       IN  /\ entries' = hist.entries
           /\ index' = hist.index
           /\ hostLog' = Append(hostLog, FollowRecord(href))
           /\ pendingParams' = after.pendingParams
           /\ notified' = after.notified
    /\ lastClick' = Given([Val(lastClick) EXCEPT !.followed = TRUE])
    /\ UNCHANGED <<listeners, ctxDefault, status, searchParams>>
    /\ UNCHANGED <<anchorVars, isAnchoredVars, hrefVars, traceVars, roundTrip, callLog>>

(* The user goes back (delta = -1) or forward (delta = 1): the host moves
   to that entry and fires popstate. *)
Traverse(delta) ==
    LET after == DispatchEvent(StoreState, listeners, entries[index + delta])
    IN  /\ PopstateCount < MaxEvents
        /\ index + delta \in 1..Len(entries)
        /\ index' = index + delta
        /\ hostLog' = Append(hostLog, TraverseRecord(delta))
        /\ pendingParams' = after.pendingParams
        /\ notified' = after.notified
        /\ UNCHANGED <<entries, listeners, ctxDefault, status, searchParams>>
        /\ UNCHANGED <<anchorVars, isAnchoredVars, hrefVars, linkVars>>

(* Mutation: the provider's value does not reach the consumers. *)
ContextForDefault(t, value) == ctxDefault

(* What useContext(SearchParamsContext) returns in tree t when the provider
   of the tree renders with the state `value`: the provider's value, and
   the context default in tree 0, which has no provider. *)
ContextFor(t, value) == IF t = 0 THEN ctxDefault ELSE value

(* The value useContext(SearchParamsContext) returns in the mounted tree t. *)
ContextValue(t) == ContextFor(t, IF t = 0 THEN ctxDefault ELSE Val(searchParams[t]))

(***************************************************************************)
(* useIsAnchored and useAnchor.                                            *)
(***************************************************************************)
(* Mutation: the `anchor === null` test is missing. *)
useIsAnchoredNoNullCheck(id, params) ==
    LET anchor == ParamsGet(params, kAnchor)
    IN  IF id.kind = "undefined" THEN [ret |-> FALSE, calls |-> <<>>]
        ELSE IF id.kind = "string"
             THEN [ret |-> IsGiven(anchor) /\ id.value = Val(anchor), calls |-> <<>>]
        ELSE IF id.kind = "array"
             THEN [ret |-> IsGiven(anchor) /\ \E i \in 1..Len(id.items) : id.items[i] = Val(anchor),
                   calls |-> <<>>]
        ELSE [ret |-> IsGiven(anchor) /\ Val(anchor) \in id.trueOn, calls |-> <<anchor>>]

(* useIsAnchored(id) with the context value params: the value returned and
   the arguments the predicate was called with. *)
useIsAnchored(id, params) ==
    LET anchor == ParamsGet(params, kAnchor)
    IN  IF anchor = Undefined THEN [ret |-> FALSE, calls |-> <<>>]
        ELSE IF id.kind = "undefined" THEN [ret |-> FALSE, calls |-> <<>>]
        ELSE IF id.kind = "string" THEN [ret |-> id.value = Val(anchor), calls |-> <<>>]
        ELSE IF id.kind = "array"
             THEN [ret |-> \E i \in 1..Len(id.items) : id.items[i] = Val(anchor),
                   calls |-> <<>>]
        ELSE [ret |-> Val(anchor) \in id.trueOn, calls |-> <<Val(anchor)>>]

(* The dependency list of useAnchor's effect in a render of caller s with
   the context value ctx. *)
useAnchorDeps(s, ctx) ==
    [isAnchored   |-> useIsAnchored(SubId(s), ctx.params).ret,
     onReveal     |-> s,
     searchParams |-> ctx.id]

(* Mutation: the dependency list is empty, the effect runs on mount only. *)
DepsChangedOnMountOnly(prev, next) == prev = Undefined

(* Mutation: searchParams is not among the dependencies. *)
DepsChangedWithoutParams(prev, next) ==
    \/ prev = Undefined
    \/ Val(prev).isAnchored # next.isAnchored
    \/ Val(prev).onReveal # next.onReveal

(* React's comparison of an effect's dependencies with the last render's. *)
DepsChanged(prev, next) ==
    \/ prev = Undefined
    \/ Val(prev).isAnchored # next.isAnchored
    \/ Val(prev).onReveal # next.onReveal
    \/ Val(prev).searchParams # next.searchParams

(* Mutation: the effect does not test isAnchored. *)
useAnchorEffectUnconditional(deps) == 1

(* The effect of useAnchor in a render with dependencies deps:
   if (isAnchored) onReveal() -- the number of onReveal calls it makes. *)
useAnchorEffect(deps) == IF deps.isAnchored THEN 1 ELSE 0

(* Whether a render of caller s with the context value ctx shows it a
   snapshot it has not rendered with before, and that snapshot matches. *)
NewAnchoredSnapshot(s, ctx) ==
    /\ useIsAnchored(SubId(s), ctx.params).ret
    /\ (subDeps[s] = Undefined \/ Val(subDeps[s]).searchParams # ctx.id)

(* A render of the useAnchor callers of tree t with the context value ctx:
   each records its dependencies and schedules its effect if they changed. *)
RenderSubs(t, ctx) ==
    /\ subDeps' = [s \in Subs |->
          IF SubUnder(s) = t THEN Given(useAnchorDeps(s, ctx)) ELSE subDeps[s]]
    /\ effectPending' = [s \in Subs |->
          IF SubUnder(s) = t
          THEN effectPending[s] \/ DepsChanged(subDeps[s], useAnchorDeps(s, ctx))
          ELSE effectPending[s]]
    /\ anchoredCommits' = [s \in Subs |->
          IF SubUnder(s) = t /\ NewAnchoredSnapshot(s, ctx)
          THEN anchoredCommits[s] + 1 ELSE anchoredCommits[s]]
    /\ UNCHANGED reveals

(* An update of tree t (a re-render with the context value ctx, its commit
   and the effects it schedules, which React runs before it handles the
   next event): each useAnchor caller whose dependencies changed runs its
   effect. *)
UpdateSubs(t, ctx) ==
    LET ran(s) == SubUnder(s) = t /\ DepsChanged(subDeps[s], useAnchorDeps(s, ctx))
        calls(s) == IF ran(s) THEN useAnchorEffect(useAnchorDeps(s, ctx)) ELSE 0
    IN  /\ subDeps' = [s \in Subs |->
              IF SubUnder(s) = t THEN Given(useAnchorDeps(s, ctx)) ELSE subDeps[s]]
        /\ reveals' = [s \in Subs |-> reveals[s] + calls(s)]
        /\ anchoredCommits' = [s \in Subs |->
              IF SubUnder(s) = t /\ NewAnchoredSnapshot(s, ctx)
              THEN anchoredCommits[s] + 1 ELSE anchoredCommits[s]]
        /\ UNCHANGED effectPending

(* The first render of tree t: the provider's useState initializer parses
   the location, its children render with that value. *)
Mount(t) ==
    /\ status[t] = "none"
    /\ status' = [status EXCEPT ![t] = "rendered"]
    /\ IF t = 0
       THEN /\ UNCHANGED searchParams
            /\ RenderSubs(t, ContextFor(t, ctxDefault))
       ELSE LET initial == Snapshot(<<t, 0>>, ParseLocation(entries[index]))
            IN  /\ searchParams' = [searchParams EXCEPT ![t] = Given(initial)]
                /\ RenderSubs(t, ContextFor(t, initial))
    /\ UNCHANGED <<browserVars, ctxDefault, pendingParams, notified>>
    /\ UNCHANGED <<isAnchoredVars, hrefVars, linkVars>>

(* The passive effects of the first render of tree t: the useAnchor effects
   of the children, then the provider's effect, which registers its
   popstate listener. *)
FlushEffects(t) ==
    /\ status[t] = "rendered"
    /\ reveals' = [s \in Subs |->
          IF SubUnder(s) = t /\ effectPending[s]
          THEN reveals[s] + useAnchorEffect(Val(subDeps[s])) ELSE reveals[s]]
    /\ effectPending' = [s \in Subs |-> IF SubUnder(s) = t THEN FALSE ELSE effectPending[s]]
    /\ status' = [status EXCEPT ![t] = "mounted"]
    /\ listeners' = IF t # 0 THEN Append(listeners, t) ELSE listeners
    /\ UNCHANGED <<entries, index, hostLog, ctxDefault, searchParams, pendingParams, notified>>
    /\ UNCHANGED <<subDeps, anchoredCommits>>
    /\ UNCHANGED <<isAnchoredVars, hrefVars, linkVars>>

(* Provider p re-renders with the queued state: the last value set becomes
   searchParams and the consumers of the context re-render. *)
RenderUpdate(p) ==
    /\ status[p] = "mounted"
    /\ IsGiven(pendingParams[p])
    /\ searchParams' = [searchParams EXCEPT ![p] = pendingParams[p]]
    /\ pendingParams' = [pendingParams EXCEPT ![p] = Undefined]
    /\ UpdateSubs(p, ContextFor(p, Val(pendingParams[p])))
    /\ UNCHANGED <<browserVars, ctxDefault, status, notified>>
    /\ UNCHANGED <<isAnchoredVars, hrefVars, linkVars>>

(* Mutation: a re-render parses the location again and uses the result. *)
RerenderWithFreshParse(t) ==
    /\ status[t] = "mounted"
    /\ t # 0
    /\ searchParams' = [searchParams EXCEPT
          ![t] = Given(Snapshot(<<t, 0 - 1>>, ParseLocation(entries[index])))]
    /\ UpdateSubs(t, Snapshot(<<t, 0 - 1>>, ParseLocation(entries[index])))
    /\ UNCHANGED <<browserVars, ctxDefault, status, pendingParams, notified>>
    /\ UNCHANGED <<isAnchoredVars, hrefVars, linkVars>>

(* The useAnchor callers of tree t re-render although the context value is
   the same (a parent re-rendered). *)
Rerender(t) ==
    /\ status[t] = "mounted"
    /\ UpdateSubs(t, ContextValue(t))
    /\ UNCHANGED <<browserVars, reactVars>>
    /\ UNCHANGED <<isAnchoredVars, hrefVars, linkVars>>

(* Mutation: the cleanup removes nothing (it passes removeEventListener a
   function that was never added). *)
UnmountKeepsListener(p) ==
    /\ status[p] = "mounted"
    /\ status' = [status EXCEPT ![p] = "unmounted"]
    /\ searchParams' = [searchParams EXCEPT ![p] = Undefined]
    /\ pendingParams' = [pendingParams EXCEPT ![p] = Undefined]
    /\ notified' = [notified EXCEPT ![p] = 0]
    /\ subDeps' = [s \in Subs |-> IF SubUnder(s) = p THEN Undefined ELSE subDeps[s]]
    /\ reveals' = [s \in Subs |-> IF SubUnder(s) = p THEN 0 ELSE reveals[s]]
    /\ anchoredCommits' = [s \in Subs |-> IF SubUnder(s) = p THEN 0 ELSE anchoredCommits[s]]
    /\ UNCHANGED <<entries, index, hostLog, listeners, ctxDefault, effectPending>>
    /\ UNCHANGED <<isAnchoredVars, hrefVars, linkVars>>

(* Provider p unmounts: the cleanup of its effect removes its listener;
   its state, its queued update and the useAnchor callers under it go. *)
Unmount(p) ==
    /\ status[p] = "mounted"
    /\ status' = [status EXCEPT ![p] = "unmounted"]
    /\ listeners' = SelectSeq(listeners, LAMBDA q : q # p)
    /\ searchParams' = [searchParams EXCEPT ![p] = Undefined]
    /\ pendingParams' = [pendingParams EXCEPT ![p] = Undefined]
    /\ notified' = [notified EXCEPT ![p] = 0]
    /\ subDeps' = [s \in Subs |-> IF SubUnder(s) = p THEN Undefined ELSE subDeps[s]]
    /\ reveals' = [s \in Subs |-> IF SubUnder(s) = p THEN 0 ELSE reveals[s]]
    /\ anchoredCommits' = [s \in Subs |-> IF SubUnder(s) = p THEN 0 ELSE anchoredCommits[s]]
    /\ UNCHANGED <<entries, index, hostLog, ctxDefault, effectPending>>
    /\ UNCHANGED <<isAnchoredVars, hrefVars, linkVars>>

(***************************************************************************)
(* LinkBuilder: testResultHref.                                            *)
(***************************************************************************)
(* Array.prototype.indexOf on an array of object references: the 0-based
   position of the first element that is the same object, -1 when none. *)
RECURSIVE ArrayIndexOfFrom(_, _, _)
ArrayIndexOfFrom(arr, x, i) ==
    IF i > Len(arr) THEN 0 - 1
    ELSE IF arr[i] = x THEN i - 1
    ELSE ArrayIndexOfFrom(arr, x, i + 1)

(* The fields of a TestResult object: objects 1 and 2 are equal field by
   field, the others differ from them. *)
ResultFields(r) == IF r <= 2 THEN "passed" ELSE "failed"

(* Mutation: elements compared by their fields, not by identity. *)
RECURSIVE ArrayIndexOfByValueFrom(_, _, _)
ArrayIndexOfByValueFrom(arr, x, i) ==
    IF i > Len(arr) THEN 0 - 1
    ELSE IF ResultFields(arr[i]) = ResultFields(x) THEN i - 1
    ELSE ArrayIndexOfByValueFrom(arr, x, i + 1)

ArrayIndexOfByValue(arr, x) == ArrayIndexOfByValueFrom(arr, x, 1)

ArrayIndexOf(arr, x) == ArrayIndexOfFrom(arr, x, 1)

(* Mutation: the last q value instead of the first. *)
FilterQLast(filter) ==
    IF IsGiven(filter) /\ ParamsHas(Val(filter), kQ)
    THEN LET qs == SelectSeq(Val(filter), LAMBDA e : e.name = kQ)
         IN  Given(qs[Len(qs)].value)
    ELSE Undefined

(* filter?.get('q') *)
FilterQ(filter) == IF IsGiven(filter) THEN ParamsGet(Val(filter), kQ) ELSE Undefined

testResultHref(args) ==
    LET params0 == <<>>
        params1 == IF IsGiven(args.test)
                   THEN ParamsSet(params0, kTestId, Val(args.test).testId)
                   ELSE params0
        params2 == IF IsGiven(args.test) /\ IsGiven(args.result)
                   THEN ParamsSet(params1, kRun,
                          NumberToString(ArrayIndexOf(Val(args.test).results, Val(args.result))))
                   ELSE params1
        params3 == IF Truthy(args.anchor)
                   THEN ParamsSet(params2, kAnchor, Val(args.anchor))
                   ELSE params2
        params4 == IF Truthy(FilterQ(args.filter))
                   THEN ParamsSet(params3, kQ, Val(FilterQ(args.filter)))
                   ELSE params3
    IN  <<"#", "?">> \o ParamsToString(params4)

(***************************************************************************)
(* LinkBuilder: generateTraceUrl.                                          *)
(***************************************************************************)
(* The URL parser's percent-encoding of a character of a path, a query or
   a fragment, for the characters the model uses: a space is escaped. *)
UrlEncodeChar(c) == IF c = " " THEN <<"%", "2", "0">> ELSE <<c>>

RECURSIVE UrlEncode(_)
UrlEncode(s) ==
    IF s = <<>> THEN <<>> ELSE UrlEncodeChar(Head(s)) \o UrlEncode(Tail(s))

SchemeChars ==
    { "a", "b", "c", "d", "e", "f", "g", "h", "i", "j", "k", "l", "m",
      "n", "o", "p", "q", "r", "s", "t", "u", "v", "w", "x", "y", "z" }

(* Whether a reference starts with a scheme and so is an absolute URL. *)
HasScheme(ref) ==
    LET i == FirstIndex(ref, ":")
    IN  i > 1 /\ \A k \in 1..(i - 1) : ref[k] \in SchemeChars

(* The URL parser's removal of "." and ".." segments; a trailing one
   leaves an empty last segment. *)
RECURSIVE RemoveDotSegments(_, _)
RemoveDotSegments(segs, out) ==
    IF segs = <<>> THEN out
    ELSE LET seg == Head(segs)
             last == Len(segs) = 1
             popped == IF out = <<>> THEN <<>> ELSE SubSeq(out, 1, Len(out) - 1)
         IN  IF seg = <<".">>
             THEN RemoveDotSegments(Tail(segs), IF last THEN Append(out, <<>>) ELSE out)
             ELSE IF seg = <<".", ".">>
             THEN RemoveDotSegments(Tail(segs), IF last THEN Append(popped, <<>>) ELSE popped)
             ELSE RemoveDotSegments(Tail(segs), Append(out, seg))

RECURSIVE JoinSegments(_)
JoinSegments(segs) ==
    IF segs = <<>> THEN <<>> ELSE <<"/">> \o Head(segs) \o JoinSegments(Tail(segs))

(* The segments of a pathname, which starts with "/". *)
PathSegments(pathname) == SplitOn(Tail(pathname), "/")

(* window.location.href: the document's URL with the query and the
   fragment of the current history entry. *)
LocationHref(page, url) ==
    page.origin \o page.pathname
      \o (IF url.search = <<>> THEN <<>> ELSE <<"?">> \o url.search)
      \o (IF url.fragment = <<>> THEN <<>> ELSE <<"#">> \o url.fragment)

(* String(new URL(ref, base)) for the base URL of document `page` at history
   entry `url`: an absolute reference is itself; otherwise the reference's
   path replaces the last segment of the base's path (the whole path when
   it starts with "/"), an empty path keeps the base's path and, without a
   query of its own, the base's query; the base's fragment is dropped. *)
NewURL(ref, page, url) ==
    LET h == FirstIndex(ref, "#")
        beforeHash == IF h = 0 THEN ref ELSE SubSeq(ref, 1, h - 1)
        fragment == IF h = 0 THEN <<>> ELSE <<"#">> \o SubSeq(ref, h + 1, Len(ref))
        q == FirstIndex(beforeHash, "?")
        pathPart == IF q = 0 THEN beforeHash ELSE SubSeq(beforeHash, 1, q - 1)
        ownQuery == IF q = 0 THEN <<>>
                    ELSE <<"?">> \o SubSeq(beforeHash, q + 1, Len(beforeHash))
        baseQuery == IF url.search = <<>> THEN <<>> ELSE <<"?">> \o url.search
        baseSegs == PathSegments(page.pathname)
        path == IF pathPart = <<>> THEN page.pathname
                ELSE IF Head(pathPart) = "/"
                THEN JoinSegments(RemoveDotSegments(PathSegments(pathPart), <<>>))
                ELSE JoinSegments(RemoveDotSegments(
                        SubSeq(baseSegs, 1, Len(baseSegs) - 1) \o SplitOn(pathPart, "/"),
                        <<>>))
        query == IF pathPart = <<>> /\ q = 0 THEN baseQuery ELSE ownQuery
    IN  IF HasScheme(ref) THEN UrlEncode(ref)
        ELSE page.origin \o UrlEncode(path) \o UrlEncode(query) \o UrlEncode(fragment)

(* Array.prototype.join *)
RECURSIVE ArrayJoin(_, _)
ArrayJoin(items, sep) ==
    IF items = <<>> THEN <<>>
    ELSE IF Len(items) = 1 THEN Head(items)
    ELSE Head(items) \o sep \o ArrayJoin(Tail(items), sep)

kTracePrefix == <<"t", "r", "a", "c", "e", "/", "i", "n", "d", "e", "x", ".", "h", "t", "m", "l", "?">>

kTraceKey == <<"t", "r", "a", "c", "e", "=">>

(* Mutation: "trace=" is written once, before the joined URLs. *)
generateTraceUrlOneKey(traces) ==
    kTracePrefix \o kTraceKey \o
      ArrayJoin([i \in 1..Len(traces) |->
                    NewURL(traces[i].path, pageBase, entries[index])], <<"&">>)

(* generateTraceUrl(traces), at the current location. *)
generateTraceUrl(traces) ==
    kTracePrefix \o
      ArrayJoin([i \in 1..Len(traces) |->
                    kTraceKey \o NewURL(traces[i].path, pageBase, entries[index])],
                <<"&">>)

(***************************************************************************)
(* Inputs of the link builder.                                             *)
(***************************************************************************)
(* TestResult objects are references 1..NumResultObjects. *)
NumResultObjects == 3

ResultObjects == 1..NumResultObjects

MaxResults == 2

TestIds == { <<"T", "1">>, <<>>, <<"a", "&", "b">> }

ResultLists ==
    { rs \in UNION { [1..n -> ResultObjects] : n \in 0..MaxResults } :
        \A i, j \in 1..Len(rs) : i # j => rs[i] # rs[j] }

Tests == { [testId |-> id, results |-> rs] : id \in TestIds, rs \in ResultLists }

AnchorArgs == { <<>>, <<"a">>, <<"a", "t", "t", "-", "2">>, <<"x", " ", "y">> }

FilterStrings ==
    { <<>>,
      <<"q", "=", "f", "o", "o">>,
      <<"q", "=">>,
      <<"q", "=", "&", "q", "=", "f", "o", "o">>,
      <<"q", "=", "f", "o", "o", "&", "q", "=", "b">>,
      <<"s", "=", "1", "&", "q", "=", "f", "o", "o">>,
      <<"t", "e", "s", "t", "I", "d", "=", "Z">>,
      <<"q", "=", "a", "%", "2", "6", "b", "+", "c">> }

HrefArgs ==
    [ test   : {Undefined} \cup { Given(t) : t \in Tests },
      result : {Undefined} \cup { Given(r) : r \in ResultObjects },
      anchor : {Undefined} \cup { Given(a) : a \in AnchorArgs },
      filter : {Undefined} \cup { Given(URLSearchParams(f)) : f \in FilterStrings } ]

(***************************************************************************)
(* Inputs of useIsAnchored.                                                *)
(***************************************************************************)
AnchorIds ==
    { IdUndefined,
      IdString(<<"a">>), IdString(<<"b">>), IdString(<<>>),
      IdArray(<< <<"a">>, <<"b">> >>), IdArray(<<>>),
      IdFunction({ <<"a">>, <<"c">> }), IdFunction({}),
      IdFunction({ <<>>, <<"r", "o", "w", "-", "4", "2">> }),
      IdString(<<"r", "o", "w", "-", "3">>) }

AnchorHashes ==
    { <<>>,
      <<"#", "?">>,
      <<"#", "?", "a", "n", "c", "h", "o", "r", "=", "a">>,
      <<"#", "a", "n", "c", "h", "o", "r", "=", "a">>,
      <<"#", "?", "a", "n", "c", "h", "o", "r", "=", "b", "&", "a", "n", "c", "h", "o", "r", "=", "a">>,
      <<"#", "?", "q", "=", "x", "&", "a", "n", "c", "h", "o", "r", "=", "c">>,
      <<"#", "?", "a", "n", "c", "h", "o", "r", "=">>,
      <<"#", "?", "a", "n", "c", "h", "o", "r">>,
      <<"#", "?", "q", "=", "x">>,
      <<"#", "?", "?", "a", "n", "c", "h", "o", "r", "=", "a">>,
      <<"#", "?", "a", "n", "c", "h", "o", "r", "=", "r", "o", "w", "-", "4", "2">>,
      <<"#", "?", "a", "n", "c", "h", "o", "r", "=", "r", "o", "w", "-", "3">> }

(***************************************************************************)
(* Inputs of generateTraceUrl.                                             *)
(***************************************************************************)
MaxTraces == 2

TracePaths ==
    { <<"a", ".", "z", "i", "p">>,
      <<"b", ".", "z", "i", "p">>,
      <<"d", "a", "t", "a", "/", "t", ".", "z", "i", "p">>,
      <<"/", "a", "b", "s", ".", "z", "i", "p">>,
      <<".", ".", "/", "u", "p", ".", "z", "i", "p">>,
      <<"a", " ", "b", ".", "z", "i", "p">>,
      <<"a", "&", "b", ".", "z", "i", "p">>,
      <<"h", "t", "t", "p", "s", ":", "/", "/", "o", "/", "c", ".", "z", "i", "p">>,
      <<>> }

Attachments == { [path |-> p] : p \in TracePaths }

TraceLists == UNION { [1..n -> Attachments] : n \in 0..MaxTraces }

(* Documents the report may be served as. *)
Pages ==
    { [origin |-> <<"h", "t", "t", "p", "s", ":", "/", "/", "x">>, pathname |-> <<"/", "r", "e", "p", "o", "r", "t", "/">>],
      [origin |-> <<"h", "t", "t", "p", "s", ":", "/", "/", "x">>, pathname |-> <<"/", "r", "e", "p", "o", "r", "t", "/", "i", "n", "d", "e", "x", ".", "h", "t", "m", "l">>],
      [origin |-> <<"h", "t", "t", "p", ":", "/", "/", "h">>, pathname |-> <<"/">>] }

(* Query and fragment the page may be at when a trace URL is built. *)
TraceLocations ==
    { [search |-> <<>>, fragment |-> <<>>],
      [search |-> <<>>, fragment |-> <<"?", "a", "n", "c", "h", "o", "r", "=", "a">>],
      [search |-> <<"s", "=", "1">>, fragment |-> <<>>] }

(***************************************************************************)
(* Parameter sets that are serialized into a link and navigated to.        *)
(***************************************************************************)
MaxParams == 2

ParamNames == { <<"a">>, <<"q">>, <<>> }

ParamValues == { <<>>, <<"x">>, <<"a", "&", "b", "=", "c", " ", "d">> }

ParamEntries == { [name |-> n, value |-> v] : n \in ParamNames, v \in ParamValues }

ParamSets == UNION { [1..n -> ParamEntries] : n \in 0..MaxParams }

(***************************************************************************)
(* Specifications.                                                         *)
(***************************************************************************)
NavInit ==
    /\ \E f \in InitialFragments : entries = <<[search |-> <<>>, fragment |-> f]>>
    /\ index = 1
    /\ hostLog = <<>>
    /\ listeners = <<>>
    /\ ctxDefault = Snapshot(<<0, 0>>, ParseLocation(entries[1]))
    /\ status = [t \in Trees |-> "none"]
    /\ searchParams = [p \in Providers |-> Undefined]
    /\ pendingParams = [p \in Providers |-> Undefined]
    /\ notified = [p \in Providers |-> 0]
    /\ subDeps = [s \in Subs |-> Undefined]
    /\ effectPending = [s \in Subs |-> FALSE]
    /\ reveals = [s \in Subs |-> 0]
    /\ anchoredCommits = [s \in Subs |-> 0]

NavIdle ==
    /\ entries = <<[search |-> <<>>, fragment |-> <<>>]>>
    /\ index = 1
    /\ hostLog = <<>>
    /\ listeners = <<>>
    /\ ctxDefault = Snapshot(<<0, 0>>, ParseLocation(entries[1]))
    /\ status = [t \in Trees |-> "none"]
    /\ searchParams = [p \in Providers |-> Undefined]
    /\ pendingParams = [p \in Providers |-> Undefined]
    /\ notified = [p \in Providers |-> 0]
    /\ subDeps = [s \in Subs |-> Undefined]
    /\ effectPending = [s \in Subs |-> FALSE]
    /\ reveals = [s \in Subs |-> 0]
    /\ anchoredCommits = [s \in Subs |-> 0]

IsAnchoredIdle ==
    /\ anchorArgs = [id |-> IdUndefined, params |-> <<>>]
    /\ anchorOut = Undefined

HrefIdle ==
    /\ hrefArgs = [test |-> Undefined, result |-> Undefined,
                   anchor |-> Undefined, filter |-> Undefined]
    /\ hrefOut = Undefined

(* The document of the report: https://x/report/ *)
DefaultPage ==
    [origin |-> <<"h", "t", "t", "p", "s", ":", "/", "/", "x">>, pathname |-> <<"/", "r", "e", "p", "o", "r", "t", "/">>]

LinkIdle ==
    /\ pageBase = DefaultPage
    /\ traceArgs = <<>>
    /\ traceOut = Undefined
    /\ roundTrip = Undefined
    /\ callLog = <<>>
    /\ lastClick = Undefined

(* The navigation store and the anchor hooks. *)
Init == NavInit /\ IsAnchoredIdle /\ HrefIdle /\ LinkIdle

Next ==
    \/ \E href \in Targets : navigate(href)
    \/ \E delta \in {0 - 1, 1} : Traverse(delta)
    \/ \E t \in Trees : Mount(t)
    \/ \E t \in Trees : FlushEffects(t)
    \/ \E p \in Providers : RenderUpdate(p)
    \/ \E t \in Trees : Rerender(t)
    \/ \E p \in Providers : Unmount(p)

Spec == Init /\ [][Next]_vars

(* The anchor hooks under one provider and under none.  React runs the
   passive effects of a committed render: the effects of a first render are
   not left pending forever. *)
AnchorTrees == {0, 1}

AnchorNext ==
    \/ \E href \in Targets : navigate(href)
    \/ \E delta \in {0 - 1, 1} : Traverse(delta)
    \/ \E t \in AnchorTrees : Mount(t)
    \/ \E t \in AnchorTrees : FlushEffects(t)
    \/ RenderUpdate(1)
    \/ \E t \in AnchorTrees : Rerender(t)
    \/ Unmount(1)

SpecAnchor ==
    Init /\ [][AnchorNext]_vars /\ \A t \in AnchorTrees : WF_vars(FlushEffects(t))

(* useIsAnchored as a function of its id and of the context value. *)
IsAnchoredInit ==
    /\ NavIdle /\ HrefIdle /\ LinkIdle
    /\ \E id \in AnchorIds, h \in AnchorHashes :
          anchorArgs = [id |-> id, params |-> URLSearchParams(Slice1(h))]
    /\ anchorOut = Undefined

CallUseIsAnchored ==
    /\ anchorOut = Undefined
    /\ anchorOut' = Given(useIsAnchored(anchorArgs.id, anchorArgs.params))
    /\ UNCHANGED <<anchorArgs, navVars, hrefVars, linkVars>>

IsAnchoredNext == CallUseIsAnchored

SpecIsAnchored == IsAnchoredInit /\ [][IsAnchoredNext]_vars

(* testResultHref as a function of its argument object. *)
HrefInit ==
    /\ NavIdle /\ IsAnchoredIdle /\ LinkIdle
    /\ hrefArgs \in HrefArgs
    /\ hrefOut = Undefined

CallTestResultHref ==
    /\ hrefOut = Undefined
    /\ hrefOut' = Given(testResultHref(hrefArgs))
    /\ UNCHANGED <<hrefArgs, navVars, isAnchoredVars, linkVars>>

HrefNext == CallTestResultHref

SpecHref == HrefInit /\ [][HrefNext]_vars

(* generateTraceUrl as a function of its argument and of the location. *)
TraceInit ==
    /\ \E u \in TraceLocations : entries = <<u>>
    /\ index = 1
    /\ hostLog = <<>>
    /\ listeners = <<>>
    /\ ctxDefault = Snapshot(<<0, 0>>, ParseLocation(entries[1]))
    /\ status = [t \in Trees |-> "none"]
    /\ searchParams = [p \in Providers |-> Undefined]
    /\ pendingParams = [p \in Providers |-> Undefined]
    /\ notified = [p \in Providers |-> 0]
    /\ subDeps = [s \in Subs |-> Undefined]
    /\ effectPending = [s \in Subs |-> FALSE]
    /\ reveals = [s \in Subs |-> 0]
    /\ anchoredCommits = [s \in Subs |-> 0]
    /\ IsAnchoredIdle /\ HrefIdle
    /\ pageBase \in Pages
    /\ traceArgs \in TraceLists
    /\ traceOut = Undefined
    /\ roundTrip = Undefined
    /\ callLog = <<>>
    /\ lastClick = Undefined

CallGenerateTraceUrl ==
    /\ traceOut = Undefined
    /\ traceOut' = Given(generateTraceUrl(traceArgs))
    /\ UNCHANGED <<pageBase, traceArgs, roundTrip, callLog, lastClick>>
    /\ UNCHANGED <<navVars, isAnchoredVars, hrefVars>>

TraceNext == CallGenerateTraceUrl

SpecTrace == TraceInit /\ [][TraceNext]_vars

(* A parameter set is serialized into a "#?" link (as testResultHref does),
   the link is navigated to and provider 1 parses the location. *)
RoundTripInit ==
    /\ NavInit /\ IsAnchoredIdle /\ HrefIdle
    /\ pageBase = DefaultPage
    /\ traceArgs = <<>>
    /\ traceOut = Undefined
    /\ roundTrip \in { Given(P) : P \in ParamSets }
    /\ callLog = <<>>
    /\ lastClick = Undefined

(* `#?` + params *)
SerializedHref(params) == <<"#", "?">> \o ParamsToString(params)

NavigateToSerialized ==
    /\ hostLog = <<>>
    /\ navigate(SerializedHref(Val(roundTrip)))

RoundTripNext ==
    \/ NavigateToSerialized
    \/ Mount(1)
    \/ FlushEffects(1)
    \/ RenderUpdate(1)

SpecRoundTrip == RoundTripInit /\ [][RoundTripNext]_vars

(* Components under provider 1 build links while the user navigates. *)
MaxCalls == 2

(* Number of navigate calls and back/forward moves between the calls. *)
MaxLinkEvents == 2

LinkTargets ==
    { <<"#", "?", "q", "=", "x", "&", "a", "n", "c", "h", "o", "r", "=", "a">>,
      <<"?", "s", "=", "1">> }

LinkTests == { [testId |-> <<"T", "1">>, results |-> <<1, 2>>] }

LinkAnchors == { Undefined, Given(<<"a">>) }

LinkTraces == { <<[path |-> <<"a", ".", "z", "i", "p">>]>>, <<[path |-> <<>>], [path |-> <<"b", ".", "z", "i", "p">>]>> }

(* A call of a link builder: its inputs, the location and the number of
   location changes at the time of the call, and the string it returned. *)
CallEntry(fn, args, out) ==
    [fn |-> fn, args |-> args, href |-> LocationHref(pageBase, entries[index]),
     at |-> PopstateCount, out |-> out]

(* Mutation: the filter object is used as the link's parameters, so the
   call writes testId into the provider's snapshot. *)
RenderTestResultLinkIntoFilter(test, anchor) ==
    LET args == [test |-> Given(test), result |-> Given(test.results[2]),
                 anchor |-> anchor, filter |-> Given(ContextValue(1).params)]
        written == ParamsSet(ContextValue(1).params, kTestId, test.testId)
    IN  /\ status[1] = "mounted"
        /\ Len(callLog) < MaxCalls
        /\ callLog' = Append(callLog,
              CallEntry("testResultHref", args, <<"#", "?">> \o ParamsToString(written)))
        /\ searchParams' = [searchParams EXCEPT
              ![1] = Given(Snapshot(Val(searchParams[1]).id, written))]
        /\ UNCHANGED <<browserVars, ctxDefault, status, pendingParams, notified>>
        /\ UNCHANGED <<anchorVars, isAnchoredVars, hrefVars, traceVars, roundTrip, lastClick>>

(* A component under provider 1 renders a link to a test result and passes
   the context value as the filter:
   testResultHref({ test, result, anchor, filter: searchParams }). *)
RenderTestResultLink(test, anchor) ==
    LET args == [test |-> Given(test), result |-> Given(test.results[2]),
                 anchor |-> anchor, filter |-> Given(ContextValue(1).params)]
    IN  /\ status[1] = "mounted"
        /\ Len(callLog) < MaxCalls
        /\ callLog' = Append(callLog,
              CallEntry("testResultHref", args, testResultHref(args)))
        /\ UNCHANGED <<navVars, isAnchoredVars, hrefVars, traceVars, roundTrip, lastClick>>

(* A component renders a link to the trace viewer: generateTraceUrl(traces). *)
RenderTraceLink(traces) ==
    /\ status[1] = "mounted"
    /\ Len(callLog) < MaxCalls
    /\ callLog' = Append(callLog,
          CallEntry("generateTraceUrl", traces, generateTraceUrl(traces)))
    /\ UNCHANGED <<navVars, isAnchoredVars, hrefVars, traceVars, roundTrip, lastClick>>

LinksNext ==
    \/ \E href \in LinkTargets : PopstateCount < MaxLinkEvents /\ navigate(href)
    \/ \E delta \in {0 - 1, 1} : PopstateCount < MaxLinkEvents /\ Traverse(delta)
    \/ Mount(1)
    \/ FlushEffects(1)
    \/ RenderUpdate(1)
    \/ \E test \in LinkTests, anchor \in LinkAnchors : RenderTestResultLink(test, anchor)
    \/ \E traces \in LinkTraces : RenderTraceLink(traces)

SpecLinks == Init /\ [][LinksNext]_vars

(* Links under provider 1 are clicked. *)
MaxClicks == 2

LinkProps ==
    { [href |-> Undefined, click |-> Given(<<"#", "?", "a", "n", "c", "h", "o", "r", "=", "a">>), ctrlClick |-> Given(<<"#", "?", "q", "=", "x", "&", "a", "n", "c", "h", "o", "r", "=", "a">>)],
      [href |-> Undefined, click |-> Given(<<"#", "?", "a", "n", "c", "h", "o", "r", "=", "b">>), ctrlClick |-> Undefined],
      [href |-> Undefined, click |-> Given(<<"#", "?", "a", "n", "c", "h", "o", "r", "=", "b">>), ctrlClick |-> Given(<<>>)],
      [href |-> Given(<<"#", "?", "a", "n", "c", "h", "o", "r", "=", "b">>), click |-> Given(<<"#", "?", "a", "n", "c", "h", "o", "r", "=", "a">>), ctrlClick |-> Undefined],
      [href |-> Given(<<"#", "?", "a", "n", "c", "h", "o", "r", "=", "a">>), click |-> Undefined, ctrlClick |-> Given(<<"#", "?", "q", "=", "x", "&", "a", "n", "c", "h", "o", "r", "=", "a">>)],
      [href |-> Given(<<"#", "?", "a", "n", "c", "h", "o", "r", "=", "a">>), click |-> Given(<<>>), ctrlClick |-> Undefined],
      [href |-> Undefined, click |-> Undefined, ctrlClick |-> Undefined] }

ClickEvents == [metaKey : BOOLEAN, ctrlKey : BOOLEAN]

ClickNext ==
    \/ \E link \in LinkProps, e \in ClickEvents :
          ClickCount < MaxClicks /\ onClick(link, e)
    \/ FollowHref
    \/ Mount(1)
    \/ FlushEffects(1)
    \/ RenderUpdate(1)

SpecClick == Init /\ [][ClickNext]_vars

(***************************************************************************)
(* Properties of useIsAnchored (checked under SpecIsAnchored).             *)
(***************************************************************************)
(* The entry lookups of `anchor` read: the first one of that name. *)
HasAnchor(params) == \E i \in 1..Len(params) : params[i].name = kAnchor

AnchorEntry(params) ==
    CHOOSE i \in 1..Len(params) :
        params[i].name = kAnchor /\ \A j \in 1..(i - 1) : params[j].name # kAnchor

(* The matching rule of the specification, by the shape of the id. *)
Matches(id, v) ==
    \/ id.kind = "string" /\ id.value = v
    \/ id.kind = "array" /\ v \in { id.items[i] : i \in 1..Len(id.items) }
    \/ id.kind = "function" /\ v \in id.trueOn

(* C2: useIsAnchored returns true exactly when the snapshot has an anchor
   value v and the id is a string equal to v, a list containing v or a
   predicate true on v; an absent id never matches, and without an anchor
   key nothing matches and the predicate is not called. *)
C2_MatchingRule ==
    IsGiven(anchorOut) =>
        LET id == anchorArgs.id
            params == anchorArgs.params
            out == Val(anchorOut)
        IN  /\ out.ret <=> (HasAnchor(params)
                              /\ Matches(id, params[AnchorEntry(params)].value))
            /\ id.kind = "undefined" => ~out.ret
            /\ ~HasAnchor(params) => (~out.ret /\ out.calls = <<>>)
            /\ (HasAnchor(params) /\ id.kind = "function")
                  => out.calls = <<params[AnchorEntry(params)].value>>
            /\ id.kind # "function" => out.calls = <<>>

C2_Witness ==
    /\ IsGiven(anchorOut)
    /\ anchorArgs.id.kind = "function"
    /\ Len(anchorArgs.params) = 2
    /\ anchorArgs.params[1].name # kAnchor
    /\ Val(anchorOut).ret
    /\ Val(anchorOut).calls = << <<"c">> >>

(***************************************************************************)
(* Properties of the navigation store (checked under Spec).                *)
(***************************************************************************)
CurrentParams == ParseLocation(entries[index])

Registered(p) == \E i \in 1..Len(listeners) : listeners[i] = p

Live(p) == status[p] \in {"rendered", "mounted"}

(* The newest snapshot provider p was given: the queued one if there is
   one, else its state. *)
LatestSnapshot(p) ==
    IF IsGiven(pendingParams[p]) THEN Val(pendingParams[p]) ELSE Val(searchParams[p])

LastOp == IF hostLog = <<>> THEN "none" ELSE hostLog[Len(hostLog)].op

(* The step is a call of navigate, its last record being the dispatch. *)
NavigateStep ==
    /\ Len(hostLog') = Len(hostLog) + 3
    /\ hostLog'[Len(hostLog) + 1].op = "navigate"

(* The step is a back/forward move of the user. *)
TraverseStep ==
    /\ Len(hostLog') = Len(hostLog) + 1
    /\ hostLog'[Len(hostLog) + 1].op = "traverse"

(* C1 as stated: a step that takes a caller of useAnchor from not anchored
   to anchored invokes its onReveal exactly once, and no step in which it
   stays anchored (a later parameter change that leaves the anchor at v, a
   re-render) invokes it again.  Violated: a parameter change that leaves
   the anchor at v invokes onReveal again. *)
C1_Original ==
    [][\A s \in Subs :
          (IsGiven(subDeps[s]) /\ IsGiven(subDeps'[s]) /\ Val(subDeps'[s]).isAnchored) =>
              /\ ~Val(subDeps[s]).isAnchored => reveals'[s] = reveals[s] + 1
              /\ (Val(subDeps[s]).isAnchored /\ ~effectPending[s])
                    => reveals'[s] = reveals[s]]_vars

(* C1 amended: onReveal is invoked exactly once for every render in which
   the caller sees a new parameter snapshot whose anchor matches its id:
   once when the parameters change from no matching anchor to anchor=v,
   once more for each later parameter change that leaves the anchor at v,
   and not on a re-render with the same snapshot. *)
C1_RevealPerSnapshot ==
    \A s \in Subs :
        /\ (IsGiven(subDeps[s]) /\ ~effectPending[s]) => reveals[s] = anchoredCommits[s]
        /\ effectPending[s] => (reveals[s] = 0 /\ anchoredCommits[s] <= 1)

C1_Witness ==
    /\ entries[1].fragment = <<>>
    /\ status[1] = "mounted"
    /\ Val(subDeps[1]).isAnchored
    /\ notified[1] = 2
    /\ reveals[1] = 2
    /\ anchoredCommits[1] = 2
    /\ index = 3
    /\ \A i \in 2..3 : ParamsGet(ParseLocation(entries[i]), kAnchor) = Given(<<"a">>)

(* C3: after a navigate call or a back/forward move, the snapshot every
   registered listener computes, and the one its provider holds once the
   update is rendered, is the parse of the location after the change. *)
C3_FreshSnapshot ==
    \A p \in Providers :
        (status[p] = "mounted" /\ notified[p] >= 1) =>
            /\ LatestSnapshot(p).params = CurrentParams
            /\ ~IsGiven(pendingParams[p]) => Val(searchParams[p]).params = CurrentParams

C3_Witness ==
    /\ LastOp = "traverse"
    /\ \E i \in 1..Len(hostLog) : hostLog[i].op = "navigate"
    /\ index < Len(entries)
    /\ ParseLocation(entries[index + 1]) # CurrentParams
    /\ status[1] = "mounted" /\ notified[1] >= 2
    /\ ~IsGiven(pendingParams[1])
    /\ Val(searchParams[1]).params = CurrentParams

RenderCycleComplete ==
    /\ \A t \in Trees : status[t] # "rendered"
    /\ \A p \in Providers : ~IsGiven(pendingParams[p])

(* C4 as stated: once a render cycle has completed, all consumers of
   SearchParamsContext, under any provider or under none, read the same
   parameters, the parse of the current location.  Violated: the context
   default is never updated, and a provider keeps its initial parse until
   its listener is first called. *)
C4_Original ==
    RenderCycleComplete =>
        \A t \in Trees : status[t] = "mounted" => ContextValue(t).params = CurrentParams

(* C4 amended: the consumers under one provider read the same snapshot
   object, that provider's state; once a render cycle has completed, every
   provider whose listener has been called holds the parse of the current
   location, so any two such providers agree; the context default stays the
   parse of the location at module load. *)
C4_SharedSnapshot ==
    /\ \A s \in Subs :
          (SubUnder(s) # 0 /\ IsGiven(subDeps[s])) =>
              Val(subDeps[s]).searchParams = Val(searchParams[SubUnder(s)]).id
    /\ \A s1, s2 \in Subs :
          (SubUnder(s1) = SubUnder(s2) /\ IsGiven(subDeps[s1]) /\ IsGiven(subDeps[s2])) =>
              Val(subDeps[s1]).searchParams = Val(subDeps[s2]).searchParams
    /\ RenderCycleComplete =>
          \A p, q \in Providers :
              (status[p] = "mounted" /\ notified[p] >= 1
                  /\ status[q] = "mounted" /\ notified[q] >= 1) =>
                  /\ Val(searchParams[p]).params = CurrentParams
                  /\ Val(searchParams[p]).params = Val(searchParams[q]).params
    /\ ctxDefault = Snapshot(<<0, 0>>, ParseLocation(entries[1]))
    /\ \A s \in Subs :
          (SubUnder(s) = 0 /\ IsGiven(subDeps[s])) =>
              Val(subDeps[s]).searchParams = ctxDefault.id

C4_Witness ==
    /\ RenderCycleComplete
    /\ \A t \in Trees : status[t] = "mounted"
    /\ \A p \in Providers : notified[p] >= 1
    /\ Val(searchParams[1]).id # Val(searchParams[2]).id
    /\ Val(searchParams[1]).params = Val(searchParams[2]).params
    /\ ctxDefault.params # CurrentParams

(* Number of navigate calls and back/forward moves so far. *)
EventCount == PopstateCount

(* C5: every listener registered before a navigate call or a back/forward
   move is called exactly once for it, however many listeners there are:
   in every step the calls of a listener that stays registered grow by the
   number of navigate calls and back/forward moves of the step. *)
C5_NotifiedOncePerEvent ==
    [][\A p \in Providers :
          (Registered(p) /\ Registered(p)') =>
              notified'[p] - notified[p] = EventCount' - EventCount]_vars

C5_Witness ==
    /\ listeners = <<2, 1>>
    /\ notified[2] = 3
    /\ notified[1] = 1
    /\ EventCount = 3

(* C6: every call of navigate(href) pushes exactly one history entry for
   href, on top of the current one, and then emits exactly one popstate
   notification, which the listeners see with the new location, also when
   href is the current location; href reaches pushState unchanged. *)
C6_PushThenNotify ==
    [][NavigateStep =>
          LET href == hostLog'[Len(hostLog) + 1].arg
          IN  /\ hostLog' = hostLog \o <<CallRecord(href), PushRecord(href), DispatchRecord>>
              /\ index' = index + 1
              /\ Len(entries') = index + 1
              /\ SubSeq(entries', 1, index) = SubSeq(entries, 1, index)
              /\ entries'[index'] = ResolveURL(href, entries[index])
              /\ \A p \in Providers :
                    Registered(p) =>
                        /\ notified'[p] = notified[p] + 1
                        /\ IsGiven(pendingParams'[p])
                        /\ Val(pendingParams'[p]).params = ParseLocation(entries'[index'])]_vars

C6_Witness ==
    /\ LastOp = "dispatchEvent"
    /\ index >= 3
    /\ entries[index] = entries[index - 1]
    /\ entries[index].fragment # <<>>
    /\ Len(listeners) = 2
    /\ \A p \in Providers : IsGiven(pendingParams[p])

(* C7 as stated: a provider's snapshot is replaced only by a call of
   navigate.  Violated: a back/forward move of the user replaces it too. *)
C7_Original ==
    [][\A p \in Providers :
          (Live(p) /\ Live(p)' /\ LatestSnapshot(p)' # LatestSnapshot(p)) => NavigateStep]_vars

(* C7 amended: a provider's snapshot is created once, at its first render,
   by parsing the current location, and is afterwards replaced only in
   response to a popstate notification, which a call of navigate and a
   back/forward move of the user both cause; no other operation (a render,
   anchor matching, a consumer reading it) produces a new snapshot or
   changes the parameters of an existing one, and the context default
   never changes. *)
C7_ReplacedOnlyOnPopstate ==
    [][/\ \A p \in Providers :
            /\ (~Live(p) /\ Live(p)') =>
                  (searchParams'[p] = Given(Snapshot(<<p, 0>>, CurrentParams))
                     /\ ~IsGiven(pendingParams'[p]))
            /\ (Live(p) /\ Live(p)' /\ LatestSnapshot(p)' # LatestSnapshot(p))
                  => (NavigateStep \/ TraverseStep)
            /\ (Live(p) /\ Live(p)' /\ Val(searchParams'[p]).id = Val(searchParams[p]).id)
                  => searchParams'[p] = searchParams[p]
            /\ (Live(p) /\ Live(p)' /\ searchParams'[p] # searchParams[p])
                  => searchParams'[p] = pendingParams[p]
       /\ ctxDefault' = ctxDefault]_vars

C7_Witness ==
    /\ LastOp = "traverse"
    /\ status[1] = "mounted"
    /\ IsGiven(pendingParams[1])
    /\ Val(pendingParams[1]).params # Val(searchParams[1]).params
    /\ Val(pendingParams[1]).id = <<1, 2>>

(***************************************************************************)
(* Properties of the link builder (checked under SpecHref).                *)
(***************************************************************************)
HrefCalled == IsGiven(hrefOut)

(* The parameters of the returned fragment, read back after its "#?". *)
OutParams == URLSearchParams(SubSeq(Val(hrefOut), 3, Len(Val(hrefOut))))

HasHashQuestionPrefix ==
    Len(Val(hrefOut)) >= 2 /\ Val(hrefOut)[1] = "#" /\ Val(hrefOut)[2] = "?"

(* The 0-based position of object r in results, by identity; -1 when r is
   not in results. *)
PositionOf(results, r) ==
    IF \E k \in 1..Len(results) : results[k] = r
    THEN (CHOOSE k \in 1..Len(results) :
            results[k] = r /\ \A j \in 1..(k - 1) : results[j] # r) - 1
    ELSE 0 - 1

ExpectedTestId ==
    IF IsGiven(hrefArgs.test)
    THEN <<[name |-> kTestId, value |-> Val(hrefArgs.test).testId]>>
    ELSE <<>>

ExpectedRun ==
    IF IsGiven(hrefArgs.test) /\ IsGiven(hrefArgs.result)
    THEN <<[name  |-> kRun,
            value |-> NumberToString(PositionOf(Val(hrefArgs.test).results,
                                                Val(hrefArgs.result)))]>>
    ELSE <<>>

(* The first q value of the filter, when the filter has one. *)
FirstQ ==
    IF IsGiven(hrefArgs.filter) /\ ParamsHas(Val(hrefArgs.filter), kQ)
    THEN LET f == Val(hrefArgs.filter)
             i == CHOOSE k \in 1..Len(f) :
                    f[k].name = kQ /\ \A j \in 1..(k - 1) : f[j].name # kQ
         IN  Given(f[i].value)
    ELSE Undefined

ExpectedQ ==
    IF IsGiven(FirstQ) /\ Val(FirstQ) # <<>>
    THEN <<[name |-> kQ, value |-> Val(FirstQ)]>>
    ELSE <<>>

ExpectedAnchorIfGiven ==
    IF IsGiven(hrefArgs.anchor)
    THEN <<[name |-> kAnchor, value |-> Val(hrefArgs.anchor)]>>
    ELSE <<>>

ExpectedAnchorIfNonEmpty ==
    IF IsGiven(hrefArgs.anchor) /\ Val(hrefArgs.anchor) # <<>>
    THEN <<[name |-> kAnchor, value |-> Val(hrefArgs.anchor)]>>
    ELSE <<>>

(* The two examples of the specification. *)
ExampleRunArgs ==
    [test   |-> Given([testId |-> <<"T", "1">>, results |-> <<1, 2>>]),
     result |-> Given(2), anchor |-> Undefined, filter |-> Undefined]

ExampleRunHref ==
    <<"#", "?", "t", "e", "s", "t", "I", "d", "=", "T", "1", "&", "r", "u", "n", "=", "1">>

ExampleAnchorArgs ==
    [test |-> Undefined, result |-> Undefined,
     anchor |-> Given(<<"a", "t", "t", "-", "2">>), filter |-> Undefined]

ExampleAnchorHref ==
    <<"#", "?", "a", "n", "c", "h", "o", "r", "=", "a", "t", "t", "-", "2">>

ExamplesHold ==
    /\ hrefArgs = ExampleRunArgs => Val(hrefOut) = ExampleRunHref
    /\ hrefArgs = ExampleAnchorArgs => Val(hrefOut) = ExampleAnchorHref
    /\ (\A f \in DOMAIN hrefArgs : hrefArgs[f] = Undefined) => Val(hrefOut) = <<"#", "?">>

(* C8 as stated: testResultHref returns "#?" followed by testId, run,
   anchor, q in that order, testId iff a test is given, run iff a test and a
   result are given (the position of the result by identity), anchor iff an
   anchor is given, q as the filter's; nothing else.  Violated: an anchor
   given as the empty string is left out. *)
C8_Original ==
    HrefCalled =>
        /\ HasHashQuestionPrefix
        /\ OutParams = ExpectedTestId \o ExpectedRun \o ExpectedAnchorIfGiven \o ExpectedQ

(* C8 amended: as C8, with anchor present iff a non-empty anchor is given. *)
C8_HrefFields ==
    HrefCalled =>
        /\ HasHashQuestionPrefix
        /\ OutParams = ExpectedTestId \o ExpectedRun \o ExpectedAnchorIfNonEmpty \o ExpectedQ
        /\ ExamplesHold

C8_Witness ==
    /\ HrefCalled
    /\ IsGiven(hrefArgs.test) /\ IsGiven(hrefArgs.result)
    /\ PositionOf(Val(hrefArgs.test).results, Val(hrefArgs.result)) = 1
    /\ Truthy(hrefArgs.anchor)
    /\ Len(OutParams) = 4
    /\ OutParams[2] = [name |-> kRun, value |-> <<"1">>]

ResultIsMissing ==
    /\ IsGiven(hrefArgs.test) /\ IsGiven(hrefArgs.result)
    /\ \A k \in 1..Len(Val(hrefArgs.test).results) :
          Val(hrefArgs.test).results[k] # Val(hrefArgs.result)

(* C9: given a test and a result that is not one of test.results,
   testResultHref returns a link with run=-1 beside the testId. *)
C9_MissingResultSentinel ==
    (HrefCalled /\ ResultIsMissing) =>
        /\ ParamsGet(OutParams, kRun) = Given(<<"-", "1">>)
        /\ ParamsGet(OutParams, kTestId) = Given(Val(hrefArgs.test).testId)
        /\ Cardinality({i \in 1..Len(OutParams) : OutParams[i].name = kRun}) = 1

C9_Witness ==
    /\ HrefCalled /\ ResultIsMissing
    /\ Len(Val(hrefArgs.test).results) = MaxResults
    /\ ParamsGet(OutParams, kRun) = Given(<<"-", "1">>)

(* C10: the output has a q parameter iff the filter's (first) q value is
   non-empty; then it has exactly one q, with that value, and no other key
   of the filter is copied; with no filter, no q key or an empty q there is
   no q parameter. *)
C10_FilterCarryThrough ==
    HrefCalled =>
        /\ ParamsHas(OutParams, kQ) <=> (IsGiven(FirstQ) /\ Val(FirstQ) # <<>>)
        /\ ParamsHas(OutParams, kQ) =>
              /\ Cardinality({i \in 1..Len(OutParams) : OutParams[i].name = kQ}) = 1
              /\ ParamsGet(OutParams, kQ) = FirstQ
              /\ OutParams[Len(OutParams)].name = kQ
        /\ \A i \in 1..Len(OutParams) :
              \/ OutParams[i].name = kQ
              \/ /\ OutParams[i].name = kTestId /\ IsGiven(hrefArgs.test)
                 /\ OutParams[i].value = Val(hrefArgs.test).testId
              \/ OutParams[i].name = kRun /\ IsGiven(hrefArgs.result)
              \/ OutParams[i].name = kAnchor /\ hrefArgs.anchor = Given(OutParams[i].value)

C10_Witness ==
    /\ HrefCalled
    /\ IsGiven(hrefArgs.filter) /\ Len(Val(hrefArgs.filter)) = 2
    /\ Val(hrefArgs.filter)[1].name # kQ
    /\ ParamsGet(OutParams, kQ) = Given(<<"f", "o", "o">>)
    /\ Len(OutParams) = 1

(***************************************************************************)
(* Properties of generateTraceUrl (checked under SpecTrace).               *)
(***************************************************************************)
TraceCalled == IsGiven(traceOut)

(* The absolute URL of the i-th attachment of the call. *)
TraceURL(i) == NewURL(traceArgs[i].path, pageBase, entries[index])

(* The i-th entry the claim expects: trace=<absolute URL>. *)
TracePiece(i) == kTraceKey \o TraceURL(i)

(* Where the i-th entry starts in the output: after the prefix, the earlier
   entries and one "&" for each of them. *)
RECURSIVE TracePieceOffset(_)
TracePieceOffset(i) ==
    IF i = 1 THEN Len(kTracePrefix)
    ELSE TracePieceOffset(i - 1) + Len(TracePiece(i - 1)) + 1

(* An absolute URL that reads back unchanged as a query-string value. *)
PlainURL(u) == \A k \in 1..Len(u) : u[k] \notin {"&", "#", "+", "%"}

TraceQuery == SubSeq(Val(traceOut), Len(kTracePrefix) + 1, Len(Val(traceOut)))

TraceExample ==
    (/\ pageBase = DefaultPage
     /\ traceArgs = <<[path |-> <<"a", ".", "z", "i", "p">>], [path |-> <<"b", ".", "z", "i", "p">>]>>)
        => Val(traceOut) = <<"t", "r", "a", "c", "e", "/", "i", "n", "d", "e", "x", ".", "h", "t", "m", "l", "?", "t", "r", "a", "c", "e", "=", "h", "t", "t", "p", "s", ":", "/", "/", "x", "/", "r", "e", "p", "o", "r", "t", "/", "a", ".", "z", "i", "p", "&", "t", "r", "a", "c", "e", "=", "h", "t", "t", "p", "s", ":", "/", "/", "x", "/", "r", "e", "p", "o", "r", "t", "/", "b", ".", "z", "i", "p">>

(* C11: generateTraceUrl returns "trace/index.html?" followed by one
   "trace=<absolute URL>" entry per attachment, in the order of the list,
   any two neighbours separated by one "&" and nothing else in the string;
   the i-th URL is the i-th path resolved against the page's location.  When
   no URL contains a character the query-string syntax reserves, the query
   reads back as exactly that list of trace values. *)
C11_TraceEntries ==
    TraceCalled =>
        LET out == Val(traceOut)
            n == Len(traceArgs)
        IN  /\ Len(out) >= Len(kTracePrefix)
            /\ SubSeq(out, 1, Len(kTracePrefix)) = kTracePrefix
            /\ \A i \in 1..n :
                  /\ SubSeq(out, TracePieceOffset(i) + 1,
                            TracePieceOffset(i) + Len(TracePiece(i))) = TracePiece(i)
                  /\ i > 1 => out[TracePieceOffset(i)] = "&"
            /\ Len(out) = IF n = 0 THEN Len(kTracePrefix)
                          ELSE TracePieceOffset(n) + Len(TracePiece(n))
            /\ (\A i \in 1..n : PlainURL(TraceURL(i))) =>
                  URLSearchParams(TraceQuery) =
                      [i \in 1..n |-> [name |-> <<"t", "r", "a", "c", "e">>, value |-> TraceURL(i)]]
            /\ TraceExample

C11_Witness ==
    /\ TraceCalled
    /\ Len(traceArgs) = MaxTraces
    /\ traceArgs[1].path = <<".", ".", "/", "u", "p", ".", "z", "i", "p">>
    /\ traceArgs[2].path = <<"d", "a", "t", "a", "/", "t", ".", "z", "i", "p">>
    /\ pageBase.pathname = <<"/", "r", "e", "p", "o", "r", "t", "/", "i", "n", "d", "e", "x", ".", "h", "t", "m", "l">>
    /\ entries[index].fragment # <<>>
    /\ Val(traceOut) = <<"t", "r", "a", "c", "e", "/", "i", "n", "d", "e", "x", ".", "h", "t", "m", "l", "?", "t", "r", "a", "c", "e", "=", "h", "t", "t", "p", "s", ":", "/", "/", "x", "/", "u", "p", ".", "z", "i", "p", "&", "t", "r", "a", "c", "e", "=", "h", "t", "t", "p", "s", ":", "/", "/", "x", "/", "r", "e", "p", "o", "r", "t", "/", "d", "a", "t", "a", "/", "t", ".", "z", "i", "p">>

(***************************************************************************)
(* Round trip through the location (checked under SpecRoundTrip).          *)
(***************************************************************************)
Navigated == hostLog # <<>>

(* C12: after navigating to "#?" followed by the serialization of a
   parameter set P, the parse of the location hash without its first
   character, and so the snapshot a notified provider holds, is P: the same
   keys in the same order with the same values, duplicate keys kept, the
   first key not altered by the "#?" prefix. *)
C12_RoundTrip ==
    Navigated =>
        /\ ParseLocation(entries[index]) = Val(roundTrip)
        /\ LocationHash(entries[index]) = SerializedHref(Val(roundTrip))
        /\ (status[1] = "mounted" /\ notified[1] >= 1) =>
              LatestSnapshot(1).params = Val(roundTrip)
        /\ (status[1] = "mounted" /\ notified[1] >= 1 /\ ~IsGiven(pendingParams[1])) =>
              Val(searchParams[1]).params = Val(roundTrip)

C12_Witness ==
    /\ Navigated
    /\ Len(Val(roundTrip)) = MaxParams
    /\ Val(roundTrip)[1].name = Val(roundTrip)[2].name
    /\ Val(roundTrip)[1].value # Val(roundTrip)[2].value
    /\ Val(roundTrip)[1].value # <<>>
    /\ status[1] = "mounted" /\ notified[1] = 1 /\ ~IsGiven(pendingParams[1])
    /\ Val(searchParams[1]).params = Val(roundTrip)

(***************************************************************************)
(* Purity of the link builders (checked under SpecLinks).                  *)
(***************************************************************************)
(* The step is a call of a link builder. *)
LinkCallStep == Len(callLog') = Len(callLog) + 1

(* Any two calls so far of the same builder with the same arguments, for
   generateTraceUrl at the same location, returned the same string. *)
SameInputsSameOutput ==
    \A i, j \in 1..Len(callLog) :
        (/\ callLog[i].fn = callLog[j].fn
         /\ callLog[i].args = callLog[j].args
         /\ (callLog[i].fn = "generateTraceUrl" => callLog[i].href = callLog[j].href))
            => callLog[i].out = callLog[j].out

(* C13: a call of testResultHref or generateTraceUrl returns what every
   earlier call with the same inputs (and, for generateTraceUrl, the same
   page location) returned, whatever happened to the history and the store
   in between, and it leaves the history, the location, the listeners and
   their notification counts, the snapshot passed as the filter, the queued
   snapshot and the context default as they were. *)
C13_Pure ==
    [][LinkCallStep =>
          /\ SameInputsSameOutput'
          /\ entries' = entries /\ index' = index
          /\ hostLog' = hostLog /\ listeners' = listeners
          /\ notified' = notified
          /\ searchParams' = searchParams
          /\ pendingParams' = pendingParams
          /\ ctxDefault' = ctxDefault
          /\ callLog'[Len(callLog')].fn = "testResultHref" =>
                callLog'[Len(callLog')].args.filter = Given(Val(searchParams'[1]).params)]_vars

C13_Witness ==
    /\ Len(callLog) = 2
    /\ callLog[1].fn = "generateTraceUrl" /\ callLog[2].fn = "generateTraceUrl"
    /\ callLog[1].args = callLog[2].args
    /\ callLog[1].href = callLog[2].href
    /\ callLog[1].out = callLog[2].out
    /\ callLog[1].at = 0 /\ callLog[2].at = 2
    /\ Len(entries) = 2 /\ index = 1
    /\ notified[1] = 2
    /\ entries[2] # entries[1]

(***************************************************************************)
(* Properties of useAnchor and of the listeners (checked under Spec).      *)
(***************************************************************************)
(* Whether the id of caller s matches the anchor of the snapshot params. *)
SpecMatches(s, params) ==
    HasAnchor(params) /\ Matches(SubId(s), params[AnchorEntry(params)].value)

(* The state of caller s: Anchored when its last render found a match. *)
Anchored(s) == IsGiven(subDeps[s]) /\ Val(subDeps[s]).isAnchored

Idle(s) == IsGiven(subDeps[s]) /\ ~Val(subDeps[s]).isAnchored

(* C14: onReveal of a caller is invoked only in a step that leaves the
   caller Anchored, its id matching the anchor of the snapshot its context
   holds; a step that takes it from Anchored to Idle (the anchor key removed
   or changed to a value that does not match) and a step in which it stays
   Idle, whatever else changes in the parameters, invoke nothing. *)
C14_NoRevealWhenIdle ==
    [][\A s \in Subs :
          /\ reveals'[s] > reveals[s] =>
                /\ Anchored(s)'
                /\ SpecMatches(s, ContextValue(SubUnder(s)).params)'
                /\ reveals'[s] = reveals[s] + 1
          /\ Idle(s)' => reveals'[s] = reveals[s]
          /\ (Anchored(s) /\ Idle(s)') => reveals'[s] = reveals[s]]_vars

C14_Witness ==
    /\ status[1] = "mounted"
    /\ notified[1] = 3
    /\ ~IsGiven(pendingParams[1])
    /\ Idle(1) /\ Idle(2)
    /\ reveals[1] = 1
    /\ reveals[2] = 2
    /\ ParamsGet(CurrentParams, kAnchor) = Undefined
    /\ ParamsGet(ParseLocation(entries[3]), kAnchor) = Given(<<"b">>)

(* C15: every step that takes a rendered caller from Idle to Anchored, the
   first time and again after it has gone back to Idle, invokes its onReveal
   once in that step; a caller that mounts while the anchor already matches
   has its effect scheduled, the scheduled effect is never dropped but runs
   onReveal once, and it does run. *)
C15_RevealOnEveryEntry ==
    /\ [][\A s \in Subs :
            /\ (Idle(s) /\ Anchored(s)') => reveals'[s] = reveals[s] + 1
            /\ (~IsGiven(subDeps[s]) /\ Anchored(s)') =>
                  (effectPending'[s] /\ reveals'[s] = reveals[s])
            /\ (effectPending[s] /\ Anchored(s) /\ ~effectPending'[s]) =>
                  reveals'[s] = reveals[s] + 1
            /\ (effectPending[s] /\ Anchored(s) /\ effectPending'[s]) =>
                  (Anchored(s)' /\ reveals'[s] = reveals[s])]_vars
    /\ \A s \in Subs : (effectPending[s] /\ Anchored(s)) ~> (reveals[s] = 1)

C15_Witness ==
    /\ status[1] = "mounted"
    /\ entries[1].fragment # <<>>
    /\ notified[1] = 2
    /\ ~IsGiven(pendingParams[1])
    /\ Anchored(1)
    /\ reveals[1] = 2
    /\ anchoredCommits[1] = 2
    /\ Len(entries) = 3 /\ index = 3
    /\ ParamsGet(ParseLocation(entries[2]), kAnchor) = Given(<<"b">>)

(***************************************************************************)
(* Properties of Link (checked under SpecClick).                           *)
(***************************************************************************)
(* The step is a run of a Link's click handler. *)
ClickStep == ClickCount' = ClickCount + 1

(* The target the claim names for a click on a Link with a click target. *)
ExpectedClickTarget(link, e) ==
    IF ~e.metaKey /\ ~e.ctrlKey THEN Val(link.click)
    ELSE IF IsGiven(link.ctrlClick) /\ Val(link.ctrlClick) # <<>>
         THEN Val(link.ctrlClick)
    ELSE Val(link.click)

HasClickTarget(link) == IsGiven(link.click) /\ Val(link.click) # <<>>

(* C16: the click handler of a Link with a click target calls
   preventDefault and calls navigate exactly once: with `click` on a plain
   click, with `ctrlClick` when ctrl or meta is held and ctrlClick is
   non-empty, else with `click`; the handler of a Link without a click
   target calls neither, pushes no history entry and notifies no listener. *)
C16_ClickNavigatesOnce ==
    [][ClickStep =>
          LET c == Val(lastClick')
              t == ExpectedClickTarget(c.link, c.event)
          IN  IF HasClickTarget(c.link)
              THEN /\ c.defaultPrevented
                   /\ hostLog' = hostLog \o <<CallRecord(t), PushRecord(t), DispatchRecord>>
                   /\ index' = index + 1
                   /\ Len(entries') = index + 1
                   /\ entries'[index'] = ResolveURL(t, entries[index])
                   /\ \A p \in Providers :
                         Registered(p) => notified'[p] = notified[p] + 1
              ELSE /\ ~c.defaultPrevented
                   /\ hostLog' = hostLog
                   /\ entries' = entries /\ index' = index
                   /\ notified' = notified
                   /\ pendingParams' = pendingParams]_vars

C16_Witness ==
    /\ ClickCount = 2
    /\ Val(lastClick).event = [metaKey |-> TRUE, ctrlKey |-> FALSE]
    /\ Truthy(Val(lastClick).link.ctrlClick)
    /\ Val(lastClick).defaultPrevented
    /\ hostLog[Len(hostLog) - 2] = CallRecord(Val(Val(lastClick).link.ctrlClick))
    /\ hostLog[1].op = "followHref"
    /\ Len(hostLog) = 4
    /\ notified[1] = 2

(* C17: in every state in which a provider's listener is registered and its
   notifications have been rendered, the provider's snapshot is the parse
   of the current location, also when the location changed between the
   provider's initial parse and the registration of its listener. *)
C17_NoLostChange ==
    \A p \in Providers :
        (status[p] = "mounted" /\ Registered(p) /\ ~IsGiven(pendingParams[p])) =>
            Val(searchParams[p]).params = CurrentParams

(* The providers whose popstate listener is registered. *)
ListenerSet == { listeners[i] : i \in 1..Len(listeners) }

(* The listeners other than p, in their order. *)
ListenersWithout(p) == SelectSeq(listeners, LAMBDA q : q # p)

(* C18: the registered popstate listeners are exactly the mounted
   providers whose effect has run, each once; the effect of a mount adds
   that provider's listener, an unmount removes that listener and no other,
   no later navigation or back/forward move touches the state of an
   unmounted provider, and every listener that stays registered is
   notified exactly once for each navigation or back/forward move. *)
C18_ListenersAreMountedProviders ==
    /\ [](/\ ListenerSet = { p \in Providers : status[p] = "mounted" }
          /\ Cardinality(ListenerSet) = Len(listeners))
    /\ [][\A p \in Providers :
            /\ (status[p] = "rendered" /\ status'[p] = "mounted") =>
                  listeners' = Append(listeners, p)
            /\ (status[p] = "mounted" /\ status'[p] = "unmounted") =>
                  (listeners' = ListenersWithout(p) /\ Len(listeners') = Len(listeners) - 1)
            /\ status[p] = "unmounted" =>
                  /\ status'[p] = "unmounted"
                  /\ searchParams'[p] = searchParams[p]
                  /\ pendingParams'[p] = pendingParams[p]
                  /\ notified'[p] = notified[p]
            /\ (Registered(p) /\ Registered(p)') =>
                  notified'[p] - notified[p] = EventCount' - EventCount]_vars

C18_Witness ==
    /\ status[1] = "unmounted"
    /\ status[2] = "mounted"
    /\ listeners = <<2>>
    /\ LastOp = "traverse"
    /\ EventCount = 3
    /\ notified[2] = 2
    /\ notified[1] = 0
    /\ searchParams[1] = Undefined /\ pendingParams[1] = Undefined
    /\ IsGiven(pendingParams[2])

=============================================================================
